---- MODULE Spec2Model ----
(***************************************************************************)
(* A model of the multi-agent pipeline: the four workers                   *)
(* (agents/code_interpreter.py, agents/visualization_agent.py,             *)
(* agents/presentation_agent.py, agents/answer_synthesiser.py), the two    *)
(* script sandboxes, the table registry, the plot file and the controller  *)
(* loop that follows next_agent.                                           *)
(***************************************************************************)
EXTENDS Integers, Sequences, FiniteSets, TLC

VARIABLES
    dataframes,   \* CodeInterpreterAgent.dataframes: name -> table object (a heap reference)
    heap,         \* the table objects: reference -> [rows, by]
    context,      \* the context dict handed to the last process() call, as left by it
    last,         \* the last process() call: its inputs, what it saw, what it returned
    plotFile,     \* the file plot.png in the working directory: absent or its bytes
    usedPaths,    \* per run, the image paths its plotting invocations used
    run,          \* the controller's run: state, selected worker, steps, record
    sessions,     \* main.sessions: session id -> session
    disk          \* the files in the uploads directory

vars == <<dataframes, heap, context, last, plotFile, usedPaths, run, sessions, disk>>

(***************************************************************************)
(* Bounds of the model.                                                    *)
(***************************************************************************)
MaxScriptLen == 2      \* statements per generated script
MaxBatch == 2          \* fenced scripts per completion

(***************************************************************************)
(* Maps with string keys (Python dicts).                                   *)
(***************************************************************************)
Empty == [k \in {} |-> 0]

Put(f, k, v) == [n \in DOMAIN f \cup {k} |-> IF n = k THEN v ELSE f[n]]

\* the element of a one-element set
Only(S) == CHOOSE v \in S : TRUE

Sessions == {"A", "B"}

(***************************************************************************)
(* Lines of a completion text.  A line is a fence-open marker, the bare    *)
(* fence-close marker, prose, or one statement of a script.                *)
(***************************************************************************)
Line(op, name, arg) == [op |-> op, name |-> name, arg |-> arg]

OpenLine == Line("open", "", "")
CloseLine == Line("close", "", "")
ProseLine == Line("prose", "", "")

\* x = 1 / x = pd.DataFrame(..) / x = np.array(..) / import x
Bind(name, kind) == Line("bind", name, kind)
\* name = src
Alias(name, src) == Line("alias", name, src)
\* name.drop(name.index, inplace=True)
Clear(name) == Line("clear", name, "")
PrintLine == Line("print", "", "")
WarnLine == Line("warn", "", "")
RaiseLine == Line("raise", "", "")
\* sys.exit()
ExitLine == Line("exit", "", "")
\* pd.set_option("display.precision", 2)
SetOptionLine == Line("setopt", "pd", "")
\* print(pd.get_option("display.precision"))
ShowOptionLine == Line("show", "pd", "")

StatementOps ==
    {"bind", "alias", "clear", "print", "warn", "raise", "exit", "setopt", "show"}

(***************************************************************************)
(* Values a script can bind.  A table is a mutable object: its value is a  *)
(* reference into the heap.                                                *)
(***************************************************************************)
Val(kind, v) == [kind |-> kind, v |-> v]

\* pd and np are the process's module objects; the module object is the
\* heap cell LibRef, present once a script has changed an option of it.
LibRef == 0

LibHandle == Val("other", LibRef)

DefaultPrecision == "6"
BuiltinsDict == Val("scalar", 0)

\* key.startswith("_") over the names of the model
Underscored == {"_t", "__builtins__"}

LibNames == {"pd", "np"}

FreshRef(hp) == CHOOSE r \in 1..(Cardinality(DOMAIN hp) + 1) : r \notin DOMAIN hp

(***************************************************************************)
(* Script Extractor: _extract_code_blocks.  One pass over the lines with   *)
(* the flag in_code_block and the list current_block.                      *)
(***************************************************************************)
\* line.strip().startswith("```python")
IsFenceOpen(ln) == ln.op = "open"

\* line.strip() == "```"
IsFenceClose(ln) == ln.op = "close"

ExtractStep(ln, st) ==
    IF IsFenceOpen(ln)
    THEN [st EXCEPT !.in_code_block = TRUE, !.current_block = <<>>]
    ELSE IF IsFenceClose(ln) /\ st.in_code_block
    THEN [st EXCEPT !.in_code_block = FALSE,
                    !.code_blocks = IF st.current_block # <<>>
                                    THEN Append(@, st.current_block) ELSE @]
    ELSE IF st.in_code_block
    THEN [st EXCEPT !.current_block = Append(@, ln)]
    ELSE st

RECURSIVE ExtractLoop(_, _)
ExtractLoop(lines, st) ==
    IF lines = <<>> THEN st ELSE ExtractLoop(Tail(lines), ExtractStep(Head(lines), st))

\* an extractor that also returns the block left open at the end of the text
ExtractFlushing(text) ==
    LET st == ExtractLoop(text, [code_blocks |-> <<>>, in_code_block |-> FALSE,
                                 current_block |-> <<>>])
    IN IF st.in_code_block /\ st.current_block # <<>>
       THEN Append(st.code_blocks, st.current_block)
       ELSE st.code_blocks

\* an extractor that keeps the blocks without a line
ExtractKeepingEmpty(text) ==
    LET keep(ln, st) ==
            IF IsFenceOpen(ln)
            THEN [st EXCEPT !.in_code_block = TRUE, !.current_block = <<>>]
            ELSE IF IsFenceClose(ln) /\ st.in_code_block
            THEN [st EXCEPT !.in_code_block = FALSE,
                            !.code_blocks = Append(@, st.current_block)]
            ELSE IF st.in_code_block
            THEN [st EXCEPT !.current_block = Append(@, ln)]
            ELSE st
        scan[k \in 0..Len(text)] ==
            IF k = 0
            THEN [code_blocks |-> <<>>, in_code_block |-> FALSE, current_block |-> <<>>]
            ELSE keep(text[k], scan[k - 1])
    IN scan[Len(text)].code_blocks

ExtractCodeBlocks(text) ==
    ExtractLoop(text, [code_blocks |-> <<>>, in_code_block |-> FALSE,
                       current_block |-> <<>>]).code_blocks

(***************************************************************************)
(* Analysis sandbox: _execute_code.                                        *)
(***************************************************************************)
NoError == "None"

\* One statement executed by exec() in the namespace st.g.  s is the run's
\* session, recorded in every table object the statement creates.
StepStmt(ln, st, s) ==
    CASE ln.op = "bind" ->
           IF ln.arg = "table"
           THEN LET r == FreshRef(st.h)
                IN [st EXCEPT !.g = Put(@, ln.name, Val("table", r)),
                              !.h = Put(@, r, [rows |-> 1, by |-> s])]
           ELSE [st EXCEPT !.g = Put(@, ln.name, Val(ln.arg, 1))]
      [] ln.op = "alias" ->
           IF ln.arg \in DOMAIN st.g
           THEN [st EXCEPT !.g = Put(@, ln.name, st.g[ln.arg])]
           ELSE [st EXCEPT !.err = "NameError"]
      [] ln.op = "clear" ->
           IF ln.name \notin DOMAIN st.g
           THEN [st EXCEPT !.err = "NameError"]
           ELSE IF st.g[ln.name].kind # "table"
           THEN [st EXCEPT !.err = "AttributeError"]
           ELSE [st EXCEPT !.h[st.g[ln.name].v].rows = 0]
      [] ln.op = "print" -> [st EXCEPT !.out = Append(@, "o")]
      [] ln.op = "warn" -> [st EXCEPT !.errout = Append(@, "w")]
      [] ln.op = "raise" -> [st EXCEPT !.err = "ZeroDivisionError"]
      [] ln.op = "exit" -> [st EXCEPT !.err = "SystemExit"]
      [] ln.op = "setopt" -> [st EXCEPT !.h = Put(@, LibRef, [precision |-> "2"])]
      [] ln.op = "show" ->
           [st EXCEPT !.out = Append(@, IF LibRef \in DOMAIN st.h
                                        THEN st.h[LibRef].precision
                                        ELSE DefaultPrecision)]
      [] OTHER -> [st EXCEPT !.err = "SyntaxError"]

RECURSIVE RunStmts(_, _, _)
RunStmts(code, st, s) ==
    IF code = <<>> \/ st.err # NoError
    THEN st
    ELSE RunStmts(Tail(code), StepStmt(Head(code), st, s), s)

\* exec(code, exec_globals): the code is compiled first, so a line that is
\* no statement fails the whole script before any statement runs.  It runs
\* inside redirect_stdout and redirect_stderr: out and errout are the two
\* capture buffers, terminal is what reaches the process's own streams.
Exec(code, g, hp, s) ==
    LET st0 == [g |-> Put(g, "__builtins__", BuiltinsDict), h |-> hp,
                out |-> <<>>, errout |-> <<>>, terminal |-> <<>>, err |-> NoError]
    IN IF \E i \in 1..Len(code) : code[i].op \notin StatementOps
       THEN [st0 EXCEPT !.err = "SyntaxError"]
       ELSE RunStmts(code, st0, s)

\* a binding set of the library handles alone
LibsOnly(dfs) == [n \in LibNames |-> LibHandle]

\* the initial binding set of _execute_code
ExecGlobals(dfs) ==
    [n \in LibNames \cup DOMAIN dfs |->
        IF n \in DOMAIN dfs THEN Val("table", dfs[n]) ELSE LibHandle]

\* the filter of the harvest loop
Harvestable(key) == key \notin Underscored /\ key \notin LibNames

\* what result["variables"][key] gets for a value
Descriptor(val, hp) ==
    CASE val.kind = "scalar" -> [d |-> "value", n |-> val.v]
      [] val.kind = "table" -> [d |-> "DataFrame", n |-> hp[val.v].rows]
      [] val.kind = "array" -> [d |-> "Array", n |-> val.v]
      [] OTHER -> [d |-> "ignored", n |-> 0]

HarvestKinds == {"scalar", "table", "array"}

\* {k: v.to_dict() for k, v in self.dataframes.items()}: the tables by value
TablesByValue(dfs, hp) == [k \in DOMAIN dfs |-> hp[dfs[k]]]

\* except Exception: the classes it catches.  SystemExit derives from
\* BaseException only.
CaughtByExcept(err) == err # "SystemExit"

\* The result dict of _execute_code, without its echo of the code.  The
\* fields initial, before and stdout are history: the names of the initial
\* binding set, the registry by value when the script started, and what the
\* script wrote to standard output; terminal is what it wrote to the
\* process's own streams; bound is every name that held a table
\* when the script completed, with the table.
Harvest(dfs, hp, exec_globals, st) ==
    LET harvested == {k \in DOMAIN st.g : Harvestable(k) /\ st.g[k].kind \in HarvestKinds}
        tables == {k \in harvested : st.g[k].kind = "table"}
    IN IF st.err = NoError
       THEN [dataframes |-> [k \in DOMAIN dfs \cup tables |->
                               IF k \in tables THEN st.g[k].v ELSE dfs[k]],
             heap |-> st.h,
             raised |-> FALSE,
             result |-> [success |-> TRUE, output |-> st.out,
                         error |-> NoError,
                         variables |-> [k \in harvested |-> Descriptor(st.g[k], st.h)],
                         initial |-> DOMAIN exec_globals, before |-> TablesByValue(dfs, hp),
                         stdout |-> st.out, terminal |-> st.terminal,
                         bound |-> [k \in {n \in DOMAIN st.g : st.g[n].kind = "table"} |->
                                      st.h[st.g[k].v]]]]
       ELSE [dataframes |-> dfs,
             heap |-> st.h,
             raised |-> ~CaughtByExcept(st.err),
             result |-> [success |-> FALSE, output |-> st.errout,
                         error |-> st.err,
                         variables |-> Empty,
                         initial |-> DOMAIN exec_globals, before |-> TablesByValue(dfs, hp),
                         stdout |-> st.out, terminal |-> st.terminal,
                         bound |-> Empty]]

ExecuteCode(dfs, hp, code, s) ==
    Only({Harvest(dfs, hp, ExecGlobals(dfs), st) :
             st \in {Exec(code, ExecGlobals(dfs), hp, s)}})

(***************************************************************************)
(* Query text: a sequence of characters.                                   *)
(***************************************************************************)
UpperCase == <<"A", "B", "C", "D", "E", "F", "G", "H", "I", "J", "K", "L", "M",
               "N", "O", "P", "Q", "R", "S", "T", "U", "V", "W", "X", "Y", "Z">>
LowerCase == <<"a", "b", "c", "d", "e", "f", "g", "h", "i", "j", "k", "l", "m",
               "n", "o", "p", "q", "r", "s", "t", "u", "v", "w", "x", "y", "z">>

LowerChar(c) ==
    IF \E i \in 1..Len(UpperCase) : UpperCase[i] = c
    THEN LowerCase[CHOOSE i \in 1..Len(UpperCase) : UpperCase[i] = c]
    ELSE c

\* a query taken as typed
AsTyped(str) == str

\* str.lower()
Lower(str) == [i \in 1..Len(str) |-> LowerChar(str[i])]

\* needle in hay
Contains(hay, needle) ==
    \E i \in 0..(Len(hay) - Len(needle)) : SubSeq(hay, i + 1, i + Len(needle)) = needle

viz_keywords ==
    << <<"p", "l", "o", "t">>,
       <<"g", "r", "a", "p", "h">>,
       <<"c", "h", "a", "r", "t">>,
       <<"v", "i", "s", "u", "a", "l", "i", "z", "e">>,
       <<"s", "h", "o", "w">>,
       <<"d", "i", "s", "p", "l", "a", "y">>,
       <<"t", "r", "e", "n", "d">>,
       <<"d", "i", "s", "t", "r", "i", "b", "u", "t", "i", "o", "n">>,
       <<"c", "o", "m", "p", "a", "r", "e">>,
       <<"c", "o", "r", "r", "e", "l", "a", "t", "i", "o", "n">> >>

NeedsVisualization(query) ==
    LET query_lower == Lower(query)
    IN \E k \in 1..Len(viz_keywords) : Contains(query_lower, viz_keywords[k])

(***************************************************************************)
(* Analysis worker: CodeInterpreterAgent.process.                          *)
(***************************************************************************)
NoAgent == "None"

\* context[f"df_{filename}"]
DfKey(filename) == "df_" \o filename

\* The loop over files.items(): read_csv, store the table, describe it in
\* the context.  It stops at the first file that fails.
RECURSIVE LoadFiles(_, _, _, _, _)
LoadFiles(files, dfs, hp, ctx, s) ==
    IF files = <<>>
    THEN [dataframes |-> dfs, heap |-> hp, context |-> ctx, failed |-> FALSE]
    ELSE LET f == Head(files)
             r == FreshRef(hp)
             dfs1 == Put(dfs, f.name, r)
             hp1 == Put(hp, r, [rows |-> f.rows, by |-> s])
         IN IF ~f.ok
            THEN [dataframes |-> dfs, heap |-> hp, context |-> ctx, failed |-> TRUE]
            ELSE IF ctx.null
            THEN [dataframes |-> dfs1, heap |-> hp1, context |-> ctx, failed |-> TRUE]
            ELSE LoadFiles(Tail(files), dfs1, hp1,
                           [ctx EXCEPT !.keys = @ \cup {DfKey(f.name)}], s)

\* what _build_prompt of the Analysis worker puts in the prompt
BuildPromptCI(dfs, hp, ctx) ==
    [tables |-> TablesByValue(dfs, hp),
     context |-> IF ~ctx.null /\ ctx.keys # {} THEN ctx.keys ELSE {}]

\* the loop over code_blocks
RECURSIVE RunBatch(_, _, _, _, _)
RunBatch(blocks, dfs, hp, results, s) ==
    IF blocks = <<>>
    THEN [dataframes |-> dfs, heap |-> hp, results |-> results, raised |-> FALSE,
          n |-> Len(results)]
    ELSE LET e == ExecuteCode(dfs, hp, Head(blocks), s)
         IN IF e.raised
            THEN [dataframes |-> e.dataframes, heap |-> e.heap, results |-> results,
                  raised |-> TRUE, n |-> Len(results) + Len(blocks)]
            ELSE RunBatch(Tail(blocks), e.dataframes, e.heap, Append(results, e.result), s)

\* an Analysis worker that names its successors by their role
RoleNamedNextAgent(needs_visualization) ==
    IF needs_visualization THEN "Visualization" ELSE "Synthesis"

CINextAgent(needs_visualization) ==
    IF needs_visualization THEN "VisualizationAgent" ELSE "AnswerSynthesiser"

CIEnvelope(success, data, next, results, tables) ==
    [agent |-> "CodeInterpreter", raised |-> FALSE, success |-> success, data |-> data,
     next |-> next, results |-> results, tables |-> tables]

CINoScriptsNextAgent == NoAgent

\* process() once the files are loaded (ld) and, when the model call
\* succeeds, the scripts are extracted and run (b)
CIAfterLoad(ld, b, query, llm) ==
    LET prompt == BuildPromptCI(ld.dataframes, ld.heap, ld.context)
        state(d, h) == [dataframes |-> d, heap |-> h, context |-> ld.context]
    IN IF ld.failed
       THEN [st |-> state(ld.dataframes, ld.heap), prompt |-> [tables |-> Empty, context |-> {}],
             extracted |-> [done |-> FALSE, n |-> 0],
             env |-> CIEnvelope(FALSE, "None", NoAgent, <<>>, Empty)]
       ELSE IF llm.fails
       THEN [st |-> state(ld.dataframes, ld.heap), prompt |-> prompt,
             extracted |-> [done |-> FALSE, n |-> 0],
             env |-> CIEnvelope(FALSE, "error", NoAgent, <<>>, Empty)]
       ELSE IF b.raised
       THEN [st |-> state(b.dataframes, b.heap), prompt |-> prompt,
             extracted |-> [done |-> TRUE, n |-> b.n],
             env |-> [CIEnvelope(FALSE, "None", NoAgent, b.results, Empty)
                        EXCEPT !.raised = TRUE]]
       ELSE IF b.n = 0
       THEN [st |-> state(ld.dataframes, ld.heap), prompt |-> prompt,
             extracted |-> [done |-> TRUE, n |-> 0],
             env |-> CIEnvelope(TRUE, "analysis", CINoScriptsNextAgent, <<>>, Empty)]
       ELSE [st |-> state(b.dataframes, b.heap), prompt |-> prompt,
             extracted |-> [done |-> TRUE, n |-> b.n],
             env |-> CIEnvelope(TRUE, "analysis",
                                CINextAgent(NeedsVisualization(query)),
                                b.results, TablesByValue(b.dataframes, b.heap))]

CIAfterFiles(ld, s, query, llm) ==
    Only({CIAfterLoad(ld, b, query, llm) :
            b \in {IF ld.failed \/ llm.fails
                   THEN [dataframes |-> ld.dataframes, heap |-> ld.heap, results |-> <<>>,
                         raised |-> FALSE, n |-> 0]
                   ELSE RunBatch(ExtractCodeBlocks(llm.text), ld.dataframes, ld.heap,
                                 <<>>, s)}})

CIProcess(dfs, hp, s, query, ctx, files, llm) ==
    Only({CIAfterFiles(ld, s, query, llm) :
            ld \in {IF files # <<>> THEN LoadFiles(files, dfs, hp, ctx, s)
                    ELSE [dataframes |-> dfs, heap |-> hp, context |-> ctx,
                          failed |-> FALSE]}})

(***************************************************************************)
(* base64.b64encode(img_data).decode("utf-8"): bytes are 0..255, three     *)
(* bytes give four characters, a last group of one or two bytes is padded  *)
(* with "=".                                                               *)
(***************************************************************************)
B64Alphabet ==
    UpperCase \o LowerCase \o
    <<"0", "1", "2", "3", "4", "5", "6", "7", "8", "9", "+", "/">>

B64Char(n) == B64Alphabet[n + 1]

RECURSIVE B64Encode(_)
B64Encode(bytes) ==
    IF Len(bytes) = 0 THEN <<>>
    ELSE IF Len(bytes) = 1
    THEN <<B64Char(bytes[1] \div 4), B64Char((bytes[1] % 4) * 16), "=", "=">>
    ELSE IF Len(bytes) = 2
    THEN <<B64Char(bytes[1] \div 4),
           B64Char((bytes[1] % 4) * 16 + bytes[2] \div 16),
           B64Char((bytes[2] % 16) * 4), "=">>
    ELSE <<B64Char(bytes[1] \div 4),
           B64Char((bytes[1] % 4) * 16 + bytes[2] \div 16),
           B64Char((bytes[2] % 16) * 4 + bytes[3] \div 64),
           B64Char(bytes[3] % 64)>> \o B64Encode(SubSeq(bytes, 4, Len(bytes)))

(***************************************************************************)
(* Plotting sandbox: _create_visualization.  The script runs with          *)
(* exec(code, exec_globals); the image is looked for at "plot.png".        *)
(***************************************************************************)
PlotPath == "plot.png"

\* no file at the path (by: the run whose script wrote the file)
Absent == [exists |-> FALSE, bytes |-> <<>>, by |-> "none"]

\* plt.savefig(path): the script writes the image img to path
Savefig(path, img) == Line("savefig", path, img)

ImageBytes(img) ==
    CASE img = "png1" -> <<137, 80, 78, 71>>
      [] img = "png2" -> <<255, 216>>
      [] OTHER -> <<0>>

PlotStatementOps == StatementOps \cup {"savefig"}

\* One statement of a plotting script; st.file is the file at PlotPath.
\* exec() runs with the process's own sys.stdout and sys.stderr.
PlotStep(ln, st, s) ==
    CASE ln.op = "savefig" ->
           IF ln.name = PlotPath
           THEN [st EXCEPT !.file = [exists |-> TRUE, bytes |-> ImageBytes(ln.arg), by |-> s],
                           !.wrote = TRUE]
           ELSE st
      [] ln.op = "print" -> [st EXCEPT !.terminal = Append(@, "o")]
      [] ln.op = "warn" -> [st EXCEPT !.terminal = Append(@, "w")]
      [] ln.op = "raise" -> [st EXCEPT !.err = "ZeroDivisionError"]
      [] OTHER -> st

RECURSIVE PlotRun(_, _, _)
PlotRun(code, st, s) ==
    IF code = <<>> \/ st.err # NoError
    THEN st
    ELSE PlotRun(Tail(code), PlotStep(Head(code), st, s), s)

PlotExec(code, file, s) ==
    LET st0 == [file |-> file, wrote |-> FALSE, terminal |-> <<>>, err |-> NoError]
    IN IF \E i \in 1..Len(code) : code[i].op \notin PlotStatementOps
       THEN [st0 EXCEPT !.err = "SyntaxError"]
       ELSE PlotRun(code, st0, s)

\* a file left where it is
KeepFile(file) == file

\* Path("plot.png").unlink()
Unlink(file) == Absent

\* The result dict without its echo of the code.  The fields wrote (the
\* script wrote the file itself), written (the bytes at the path when the
\* script ended), took (the run whose script wrote the file that was read)
\* and path are history, and so are left (a file is at the path when the
\* call returns) and terminal (what the script wrote to the process's own
\* streams).
VizResult(st) ==
    IF st.err # NoError
    THEN [file |-> st.file,
          result |-> [success |-> FALSE, image_base64 |-> <<>>, error |-> st.err,
                      wrote |-> st.wrote, written |-> st.file.bytes, took |-> "none",
                      path |-> PlotPath, left |-> st.file.exists,
                      terminal |-> st.terminal]]
    ELSE IF st.file.exists
    THEN [file |-> Unlink(st.file),
          result |-> [success |-> TRUE, image_base64 |-> B64Encode(st.file.bytes),
                      error |-> NoError,
                      wrote |-> st.wrote, written |-> st.file.bytes, took |-> st.file.by,
                      path |-> PlotPath, left |-> Unlink(st.file).exists,
                      terminal |-> st.terminal]]
    ELSE [file |-> st.file,
          result |-> [success |-> FALSE, image_base64 |-> <<>>,
                      error |-> "No plot file was created",
                      wrote |-> st.wrote, written |-> st.file.bytes, took |-> "none",
                      path |-> PlotPath, left |-> st.file.exists,
                      terminal |-> st.terminal]]

CreateVisualization(code, file, s) ==
    Only({VizResult(st) : st \in {PlotExec(code, file, s)}})

(***************************************************************************)
(* Plotting worker: VisualizationAgent.process.                            *)
(***************************************************************************)
\* _build_prompt of the Plotting worker: json.dumps(context) raises on a
\* tuple key, and "dataframes_info" in context raises when context is None.
BuildPromptVizRaises(ctx) == ctx.tupleKeys \/ ctx.null

\* the loop over code_blocks: every artifact, in script order
RECURSIVE VizBatch(_, _, _, _)
VizBatch(blocks, file, results, s) ==
    IF blocks = <<>>
    THEN [file |-> file, results |-> results]
    ELSE LET v == CreateVisualization(Head(blocks), file, s)
         IN VizBatch(Tail(blocks), v.file, Append(results, v.result), s)

\* a list that keeps every artifact
AllArtifacts(results) == results

\* if viz_result["success"]: visualizations.append(viz_result)
RECURSIVE Successful(_)
Successful(results) ==
    IF results = <<>> THEN <<>>
    ELSE IF Head(results).success
    THEN <<Head(results)>> \o Successful(Tail(results))
    ELSE Successful(Tail(results))

\* a Plotting worker that hands back to Analysis
BackToAnalysis == "CodeInterpreter"

VizNextAgent == "AnswerSynthesiser"

VizFailureNextAgent == NoAgent

\* a payload without the key "visualization_count", and one with it
NoCount == <<>>

Count(n) == <<n>>

VizEnvelope(raised, success, data, next, visualizations, count) ==
    [agent |-> "VisualizationAgent", raised |-> raised, success |-> success,
     data |-> data, next |-> next, visualizations |-> visualizations,
     visualization_count |-> count]

\* process() once the scripts, if the model call succeeds, are run (b)
VizAfterBatch(file, b, ctx, llm) ==
    IF BuildPromptVizRaises(ctx)
    THEN [file |-> file, artifacts |-> <<>>,
          env |-> VizEnvelope(TRUE, FALSE, "None", NoAgent, <<>>, NoCount)]
    ELSE IF llm.fails
    THEN [file |-> file, artifacts |-> <<>>,
          env |-> VizEnvelope(FALSE, FALSE, "error", VizFailureNextAgent, <<>>, NoCount)]
    ELSE IF b.results = <<>>
    THEN [file |-> file, artifacts |-> <<>>,
          env |-> VizEnvelope(FALSE, TRUE, "visualizations", VizNextAgent, <<>>, NoCount)]
    ELSE [file |-> b.file, artifacts |-> b.results,
          env |-> VizEnvelope(FALSE, TRUE, "visualizations", VizNextAgent,
                              Successful(b.results), Count(Len(Successful(b.results))))]

VizProcess(file, s, query, ctx, llm) ==
    Only({VizAfterBatch(file, b, ctx, llm) :
            b \in {IF BuildPromptVizRaises(ctx) \/ llm.fails
                   THEN [file |-> file, results |-> <<>>]
                   ELSE VizBatch(ExtractCodeBlocks(llm.text), file, <<>>, s)}})

(***************************************************************************)
(* Reporting worker: PresentationAgent.process.                            *)
(***************************************************************************)
Envelope(agent, raised, success, data, next) ==
    [agent |-> agent, raised |-> raised, success |-> success, data |-> data, next |-> next]

\* _build_prompt of the Reporting worker: "code_interpreter_data" in context
\* raises when context is None.
BuildPromptPresRaises(ctx) == ctx.null

\* the context keys _build_prompt and _structure_presentation look up
PresAnalysisKey == "code_interpreter_data"

PresPlottingKey == "visualization_data"

\* _build_prompt: which parts the prompt holds besides the query
BuildPromptPres(ctx) ==
    [analysis |-> PresAnalysisKey \in ctx.keys,
     visualizations |-> PresPlottingKey \in ctx.keys]

\* _structure_presentation: the artifact list is the Plotting payload's when
\* the context has one, else the empty list
StructurePresentation(ctx) ==
    [visualizations |-> IF PresPlottingKey \in ctx.keys THEN "visualization_data" ELSE "empty",
     metadata |-> [has_code_analysis |-> PresAnalysisKey \in ctx.keys]]

\* a worker that names Synthesis as its successor
HandsOnToSynthesis == "AnswerSynthesiser"

\* next_agent=None on success; the field's default when it is left out
PresNextAgent == NoAgent

PresFailureNextAgent == NoAgent

PresProcess(ctx, llm) ==
    IF BuildPromptPresRaises(ctx)
    THEN Envelope("PresentationAgent", TRUE, FALSE, "None", NoAgent)
    ELSE IF llm.fails
    THEN Envelope("PresentationAgent", FALSE, FALSE, "error", PresFailureNextAgent)
    ELSE Envelope("PresentationAgent", FALSE, TRUE, "presentation", PresNextAgent)

(***************************************************************************)
(* Synthesis worker: AnswerSynthesiserAgent.process.  Its _build_prompt    *)
(* runs inside the try: context.get raises when context is None.           *)
(***************************************************************************)
BuildPromptSynthRaises(ctx) == ctx.null

\* next_agent=None in both returns
SynthNextAgent == NoAgent

SynthProcess(ctx, llm) ==
    IF BuildPromptSynthRaises(ctx) \/ llm.fails
    THEN Envelope("AnswerSynthesiser", FALSE, FALSE, "error", SynthNextAgent)
    ELSE Envelope("AnswerSynthesiser", FALSE, TRUE, "answer", SynthNextAgent)

(***************************************************************************)
(* Table objects have no observable address: after a call the references   *)
(* are renumbered by the first registry name that holds each object, and   *)
(* objects no name holds are dropped.                                      *)
(***************************************************************************)
NameOrder == <<"a.csv", "b.csv", "x", "y">>

Canon(dfs, hp) ==
    LET holds(i, r) == NameOrder[i] \in DOMAIN dfs /\ dfs[NameOrder[i]] = r
        rep(r) == CHOOSE i \in 1..Len(NameOrder) :
                     holds(i, r) /\ \A j \in 1..(i - 1) : ~holds(j, r)
        live == {dfs[n] : n \in DOMAIN dfs}
    IN [dataframes |-> [n \in DOMAIN dfs |-> rep(dfs[n])],
        heap |-> [i \in {rep(r) : r \in live} \cup ({LibRef} \cap DOMAIN hp) |->
                    IF i = LibRef THEN hp[LibRef]
                    ELSE hp[CHOOSE r \in live : rep(r) = i]]]

(***************************************************************************)
(* Inputs.                                                                 *)
(***************************************************************************)
SeqsUpTo(S, n) == UNION {[1..k -> S] : k \in 0..n}

\* a completion: prose, then each script between an open and a close marker
RECURSIVE Fenced(_)
Fenced(batch) ==
    IF batch = <<>> THEN <<>>
    ELSE <<OpenLine>> \o Head(batch) \o <<CloseLine, ProseLine>> \o Fenced(Tail(batch))

Completion(batch) == [fails |-> FALSE, text |-> <<ProseLine>> \o Fenced(batch)]

ModelCallFails == [fails |-> TRUE, text |-> <<>>]

File(name, ok, rows) == [name |-> name, ok |-> ok, rows |-> rows]

\* A context: None, or a dict with its keys; tupleKeys says that some mapping
\* in it has a key that is a tuple (a harvested dict such as
\* df.groupby([..]).size().to_dict()), which json.dumps rejects.
EmptyContext == [null |-> FALSE, keys |-> {}, tupleKeys |-> FALSE]
NullContext == [null |-> TRUE, keys |-> {}, tupleKeys |-> FALSE]
TupleKeyContext == [null |-> FALSE, keys |-> {"codeinterpreter_data"}, tupleKeys |-> TRUE]

PlainQuery == <<"m", "e", "a", "n">>
PlotQuery == <<"P", "l", "o", "t", " ", "i", "t">>

NoCall == [agent |-> NoAgent]

Init ==
    /\ dataframes = Empty
    /\ heap = Empty
    /\ context = EmptyContext
    /\ last = NoCall
    /\ plotFile = Absent
    /\ usedPaths = [s \in Sessions |-> {}]
    /\ run = [state |-> "Idle"]
    /\ sessions = Empty
    /\ disk = {}

(***************************************************************************)
(* One call of CodeInterpreterAgent.process by a run of session s.         *)
(***************************************************************************)
ProcessCI(s, query, ctx, files, llm) ==
    \E p \in {CIProcess(dataframes, heap, s, query, ctx, files, llm)} :
    \E c \in {Canon(p.st.dataframes, p.st.heap)} :
       /\ dataframes' = c.dataframes
       /\ heap' = c.heap
       /\ context' = p.st.context
       /\ last' = [agent |-> "CodeInterpreter", session |-> s, query |-> query,
                   files |-> files, preTables |-> TablesByValue(dataframes, heap),
                   preContext |-> ctx, modelFails |-> llm.fails,
                   prompt |-> p.prompt, extracted |-> p.extracted, env |-> p.env]
       /\ UNCHANGED <<plotFile, usedPaths>>

(***************************************************************************)
(* One call of VisualizationAgent.process by a run of session s.           *)
(***************************************************************************)
ProcessViz(s, query, ctx, llm) ==
    \E p \in {VizProcess(plotFile, s, query, ctx, llm)} :
       /\ plotFile' = p.file
       /\ usedPaths' = [usedPaths EXCEPT
                          ![s] = @ \cup {p.artifacts[i].path : i \in 1..Len(p.artifacts)}]
       /\ context' = ctx
       /\ last' = [agent |-> "VisualizationAgent", session |-> s, query |-> query,
                   preFile |-> plotFile, preContext |-> ctx, modelFails |-> llm.fails,
                   artifacts |-> p.artifacts, env |-> p.env]
       /\ UNCHANGED <<dataframes, heap>>

(***************************************************************************)
(* One call of PresentationAgent.process, of AnswerSynthesiserAgent.process.*)
(***************************************************************************)
ProcessPres(s, query, ctx, llm) ==
    /\ context' = ctx
    /\ last' = [agent |-> "PresentationAgent", session |-> s, query |-> query,
                preContext |-> ctx, modelFails |-> llm.fails,
                prompt |-> BuildPromptPres(ctx),
                presentation |-> StructurePresentation(ctx),
                env |-> PresProcess(ctx, llm)]
    /\ UNCHANGED <<dataframes, heap, plotFile, usedPaths>>

ProcessSynth(s, query, ctx, llm) ==
    /\ context' = ctx
    /\ last' = [agent |-> "AnswerSynthesiser", session |-> s, query |-> query,
                preContext |-> ctx, modelFails |-> llm.fails, env |-> SynthProcess(ctx, llm)]
    /\ UNCHANGED <<dataframes, heap, plotFile, usedPaths>>

(***************************************************************************)
(* Spec: the Analysis worker and its sandbox, one script per completion.   *)
(***************************************************************************)
SandboxStmts ==
    {Bind("x", "scalar"), Bind("x", "table"), Bind("_t", "scalar"), Bind("pd", "scalar"),
     Alias("y", "x"), Clear("x"), PrintLine, RaiseLine}

SandboxScripts == SeqsUpTo(SandboxStmts, MaxScriptLen)

Next ==
    \E code \in SandboxScripts :
        /\ ProcessCI("A", PlainQuery, EmptyContext, <<>>, Completion(<<code>>))
        /\ UNCHANGED <<run, sessions, disk>>

Spec == Init /\ [][Next]_vars

(***************************************************************************)
(* SpecBatch: the Analysis worker runs a batch of scripts per completion.  *)
(***************************************************************************)
BatchScripts ==
    {<<Bind("x", "table")>>, <<Bind("_t", "table")>>, <<PrintLine, RaiseLine>>,
     <<ExitLine>>, <<Clear("x")>>, <<Alias("y", "x")>>}

NextBatch ==
    \E batch \in SeqsUpTo(BatchScripts, MaxBatch) :
        /\ ProcessCI("A", PlainQuery, EmptyContext, <<>>, Completion(batch))
        /\ UNCHANGED <<run, sessions, disk>>

SpecBatch == Init /\ [][NextBatch]_vars

(***************************************************************************)
(* SpecExtract: _extract_code_blocks applied to completion texts, each     *)
(* text one line longer than the one before.                               *)
(***************************************************************************)
MaxTextLen == 6

TextLines == {OpenLine, CloseLine, ProseLine, PrintLine, RaiseLine}

ExtractorCalled == last.agent = "Extractor"

ExtractText ==
    \E ln \in TextLines :
        LET text == (IF ExtractorCalled THEN last.text ELSE <<>>) \o <<ln>>
        IN /\ Len(text) <= MaxTextLen
           /\ last' = [agent |-> "Extractor", text |-> text,
                       code_blocks |-> ExtractCodeBlocks(text)]
           /\ UNCHANGED <<dataframes, heap, context, plotFile, usedPaths, run, sessions, disk>>

NextExtract == ExtractText

SpecExtract == Init /\ [][NextExtract]_vars

(***************************************************************************)
(* SpecTwice: every completion holds the same script twice.                *)
(***************************************************************************)
TwiceStmts ==
    {Bind("x", "scalar"), Bind("x", "table"), Clear("x"), PrintLine, RaiseLine,
     SetOptionLine, ShowOptionLine}

NextTwice ==
    \E code \in SeqsUpTo(TwiceStmts, MaxScriptLen) :
        /\ ProcessCI("A", PlainQuery, EmptyContext, <<>>, Completion(<<code, code>>))
        /\ UNCHANGED <<run, sessions, disk>>

SpecTwice == Init /\ [][NextTwice]_vars

(***************************************************************************)
(* SpecLoad: runs of two sessions call the one Analysis worker of the      *)
(* process, with input files.                                              *)
(***************************************************************************)
MaxFiles == 2

FileChoices == {File("a.csv", TRUE, 2), File("b.csv", TRUE, 1), File("b.csv", FALSE, 0)}

\* a files dict: display names are its keys, so no name comes twice
FileDicts ==
    {fs \in SeqsUpTo(FileChoices, MaxFiles) :
        \A i, j \in 1..Len(fs) : i # j => fs[i].name # fs[j].name}

LoadCompletions ==
    {Completion(<<>>), Completion(<< <<Bind("x", "table")>> >>), ModelCallFails}

NextLoad ==
    \E s \in Sessions, files \in FileDicts, ctx \in {EmptyContext, NullContext},
       llm \in LoadCompletions :
        /\ ProcessCI(s, PlainQuery, ctx, files, llm)
        /\ UNCHANGED <<run, sessions, disk>>

SpecLoad == Init /\ [][NextLoad]_vars

(***************************************************************************)
(* SpecPlot: runs of two sessions call the Plotting worker, one call at a  *)
(* time.                                                                   *)
(***************************************************************************)
PlotScripts ==
    {<<Savefig(PlotPath, "png1")>>,
     <<Savefig(PlotPath, "png2")>>,
     <<Savefig(PlotPath, "png1"), RaiseLine>>,
     <<Savefig("figure.png", "png1")>>,
     <<RaiseLine>>,
     <<PrintLine>>}

PlotCompletions ==
    {Completion(batch) : batch \in SeqsUpTo(PlotScripts, MaxBatch)} \cup {ModelCallFails}

NextPlot ==
    \E s \in Sessions, ctx \in {EmptyContext, TupleKeyContext}, llm \in PlotCompletions :
        /\ ProcessViz(s, PlotQuery, ctx, llm)
        /\ UNCHANGED <<run, sessions, disk>>

SpecPlot == Init /\ [][NextPlot]_vars

(***************************************************************************)
(* SpecWorkers: any caller calls process() of the four workers.            *)
(***************************************************************************)
Workers == {"CodeInterpreter", "VisualizationAgent", "PresentationAgent", "AnswerSynthesiser"}

Queries ==
    {<<>>,
     PlainQuery,
     PlotQuery,
     <<"s", "u", "b", "p", "l", "o", "t", "s">>,
     <<"T", "R", "E", "N", "D">>,
     <<"p", "l", "o", " ", "t">>}

Contexts == {EmptyContext, TupleKeyContext, NullContext}

WorkerFiles == {<<>>, <<File("b.csv", FALSE, 0)>>}

AnalysisCompletions ==
    {Completion(batch) :
        batch \in SeqsUpTo({<<Bind("x", "scalar"), PrintLine>>, <<RaiseLine>>}, MaxBatch)}
    \cup {ModelCallFails}

PlottingCompletions ==
    {Completion(batch) :
        batch \in SeqsUpTo({<<Savefig(PlotPath, "png1")>>, <<RaiseLine>>}, MaxBatch)}
    \cup {ModelCallFails}

OtherCompletions == {Completion(<<>>), ModelCallFails}

CallCI ==
    \E query \in Queries, ctx \in Contexts, files \in WorkerFiles,
       llm \in AnalysisCompletions :
        /\ ProcessCI("A", query, ctx, files, llm)
        /\ UNCHANGED <<run, sessions, disk>>

CallViz ==
    \E ctx \in Contexts, llm \in PlottingCompletions :
        /\ ProcessViz("A", PlotQuery, ctx, llm)
        /\ UNCHANGED <<run, sessions, disk>>

CallPres ==
    \E ctx \in Contexts, llm \in OtherCompletions :
        /\ ProcessPres("A", PlotQuery, ctx, llm)
        /\ UNCHANGED <<run, sessions, disk>>

CallSynth ==
    \E ctx \in Contexts, llm \in OtherCompletions :
        /\ ProcessSynth("A", PlotQuery, ctx, llm)
        /\ UNCHANGED <<run, sessions, disk>>

NextWorkers == CallCI \/ CallViz \/ CallPres \/ CallSynth

SpecWorkers == Init /\ [][NextWorkers]_vars

(***************************************************************************)
(* SpecRoute: the pipeline controller.  src/agents/orchestrator.py is      *)
(* imported by main.py but is not part of the sources, so the controller   *)
(* follows the specification's state machine {Idle, Routing, Terminated,   *)
(* Failed}: Routing executes the selected worker, the envelope's next      *)
(* field selects the next worker, no next worker gives Terminated, an      *)
(* unknown one gives Failed, and a step ceiling forces Terminated.  A      *)
(* process() that raises returns no envelope: the run is then Aborted      *)
(* (main.py answers the request with status 500).                          *)
(***************************************************************************)
StepCeiling == 10

Entry(r) == [agent |-> r.agent, success |-> r.success, next |-> r.next]

Advance(r, env) ==
    IF env.raised
    THEN [r EXCEPT !.state = "Aborted"]
    ELSE LET steps == r.steps + 1
             record == Append(r.record, Entry(env))
         IN [r EXCEPT !.steps = steps,
                      !.record = record,
                      !.current = env.next,
                      !.state = IF env.next = NoAgent THEN "Terminated"
                                ELSE IF env.next \notin Workers THEN "Failed"
                                ELSE IF steps >= StepCeiling THEN "Terminated"
                                ELSE "Routing"]

RouteContexts == {EmptyContext, TupleKeyContext}

StartRun ==
    /\ run.state # "Routing"
    /\ \E entry \in Workers, query \in {PlainQuery, PlotQuery}, ctx \in RouteContexts,
          files \in WorkerFiles :
        /\ run' = [state |-> "Routing", session |-> "A", current |-> entry, steps |-> 0,
                   record |-> <<>>, query |-> query, files |-> files]
        /\ context' = ctx
    /\ UNCHANGED <<dataframes, heap, last, plotFile, usedPaths, sessions, disk>>

Routing(agent) == run.state = "Routing" /\ run.current = agent

StepCI ==
    /\ Routing("CodeInterpreter")
    /\ \E llm \in AnalysisCompletions :
        ProcessCI(run.session, run.query, context, run.files, llm)
    /\ run' = Advance(run, last'.env)
    /\ UNCHANGED <<sessions, disk>>

StepViz ==
    /\ Routing("VisualizationAgent")
    /\ \E llm \in PlottingCompletions :
        ProcessViz(run.session, run.query, context, llm)
    /\ run' = Advance(run, last'.env)
    /\ UNCHANGED <<sessions, disk>>

StepPres ==
    /\ Routing("PresentationAgent")
    /\ \E llm \in OtherCompletions :
        ProcessPres(run.session, run.query, context, llm)
    /\ run' = Advance(run, last'.env)
    /\ UNCHANGED <<sessions, disk>>

StepSynth ==
    /\ Routing("AnswerSynthesiser")
    /\ \E llm \in OtherCompletions :
        ProcessSynth(run.session, run.query, context, llm)
    /\ run' = Advance(run, last'.env)
    /\ UNCHANGED <<sessions, disk>>

NextRoute == StartRun \/ StepCI \/ StepViz \/ StepPres \/ StepSynth

SpecRoute == Init /\ [][NextRoute]_vars

(***************************************************************************)
(* SpecSession: the HTTP handlers of main.py over the session store and    *)
(* the uploads directory.  orchestrator.chat is not part of the sources:   *)
(* its result follows the specification's run result, an ordered record of *)
(* (worker, envelope) pairs with run-level success = every envelope has    *)
(* success = true.  The history list of a session is left out.             *)
(***************************************************************************)
MaxUploads == 3

SessionIds == {"A", "B"}

Filenames == {"a.csv", "notes.txt"}

\* file.filename.endswith(".csv")
IsCsv(filename) == filename = "a.csv"

\* the session dict chat() creates has no "uploaded_files" key
ChatSession == [context |-> Empty, has_uploaded_files |-> FALSE, uploaded_files |-> Empty]

UploadSession == [context |-> Empty, has_uploaded_files |-> TRUE, uploaded_files |-> Empty]

\* f"{agent_name.lower()}_data"
ContextKey(agent_name) ==
    CASE agent_name = "CodeInterpreter" -> "codeinterpreter_data"
      [] agent_name = "VisualizationAgent" -> "visualizationagent_data"
      [] agent_name = "PresentationAgent" -> "presentationagent_data"
      [] agent_name = "AnswerSynthesiser" -> "answersynthesiser_data"

AgentResultOf(agent, success, v) ==
    [agent |-> agent, success |-> success,
     data |-> IF success THEN [by |-> agent, v |-> v] ELSE [by |-> "error", v |-> v]]

\* the record of a run: Analysis then Synthesis, Analysis then a failed
\* Plotting, the three workers, Synthesis alone, a failed Analysis
AgentResults(v) ==
    {<<AgentResultOf("CodeInterpreter", TRUE, v), AgentResultOf("AnswerSynthesiser", TRUE, v)>>,
     <<AgentResultOf("CodeInterpreter", TRUE, v), AgentResultOf("VisualizationAgent", FALSE, v)>>,
     <<AgentResultOf("CodeInterpreter", TRUE, v), AgentResultOf("VisualizationAgent", TRUE, v),
       AgentResultOf("AnswerSynthesiser", TRUE, v)>>,
     <<AgentResultOf("AnswerSynthesiser", TRUE, v)>>,
     <<AgentResultOf("CodeInterpreter", FALSE, v)>>}

RunSuccess(agent_results) == \A i \in 1..Len(agent_results) : agent_results[i].success

\* what orchestrator.chat returns, or that it raises
ChatResults ==
    {[raises |-> FALSE, success |-> RunSuccess(r), agent_results |-> r] :
        r \in AgentResults(1) \cup AgentResults(2)}
    \cup {[raises |-> TRUE, success |-> FALSE, agent_results |-> <<>>]}

\* "Update session context"
UpdateContext(ctx, results) ==
    IF results.success /\ results.agent_results # <<>>
    THEN LET rs == results.agent_results
             keys == {ContextKey(rs[i].agent) : i \in 1..Len(rs)}
         IN [k \in DOMAIN ctx \cup keys |->
               IF k \in keys
               THEN rs[CHOOSE i \in 1..Len(rs) : ContextKey(rs[i].agent) = k].data
               ELSE ctx[k]]
    ELSE ctx

\* a request served: ran says that orchestrator.chat was called and returned
Request(handler, session_id, status, ran, results) ==
    [agent |-> handler, session |-> session_id, status |-> status, ran |-> ran,
     results |-> results]

chat(session_id, results) ==
    LET created == IF session_id \in DOMAIN sessions THEN sessions
                   ELSE Put(sessions, session_id, ChatSession)
    IN /\ sessions' = IF results.raises THEN created
                      ELSE [created EXCEPT ![session_id].context = UpdateContext(@, results)]
       /\ last' = Request("chat", session_id, IF results.raises THEN 500 ELSE 200,
                         ~results.raises, results)
       /\ UNCHANGED <<dataframes, heap, context, plotFile, usedPaths, run, disk>>

\* uuid4: an id no file on disk has
FreshIds == {n \in 1..MaxUploads : \A f \in disk : f.id # n}

upload_file(session_id, filename, message, results) ==
    IF ~IsCsv(filename)
    THEN /\ last' = Request("upload_file", session_id, 500, FALSE, results)
         /\ UNCHANGED <<dataframes, heap, context, plotFile, usedPaths, run, sessions, disk>>
    ELSE /\ FreshIds # {}
         /\ LET created == IF session_id \in DOMAIN sessions THEN sessions
                           ELSE Put(sessions, session_id, UploadSession)
                file_id == CHOOSE n \in FreshIds : \A m \in FreshIds : n <= m
                stored == [created EXCEPT ![session_id].uploaded_files =
                                              Put(@, filename, file_id)]
            IN /\ disk' = disk \cup {[id |-> file_id, name |-> filename, owner |-> session_id]}
               /\ IF ~created[session_id].has_uploaded_files
                  THEN /\ sessions' = created
                       /\ last' = Request("upload_file", session_id, 500, FALSE, results)
                  ELSE IF message /\ results.raises
                  THEN /\ sessions' = stored
                       /\ last' = Request("upload_file", session_id, 500, FALSE, results)
                  ELSE /\ sessions' =
                            IF message
                            THEN [stored EXCEPT ![session_id].context =
                                                    UpdateContext(@, results)]
                            ELSE stored
                       /\ last' = Request("upload_file", session_id, 200, message, results)
         /\ UNCHANGED <<dataframes, heap, context, plotFile, usedPaths, run>>

delete_session(session_id) ==
    /\ session_id \in DOMAIN sessions
    /\ LET session == sessions[session_id]
           filepaths == IF session.has_uploaded_files
                        THEN {session.uploaded_files[n] : n \in DOMAIN session.uploaded_files}
                        ELSE {}
       IN disk' = {f \in disk : f.id \notin filepaths}
    /\ sessions' = [k \in DOMAIN sessions \ {session_id} |-> sessions[k]]
    /\ last' = Request("delete_session", session_id, 200, FALSE, <<>>)
    /\ UNCHANGED <<dataframes, heap, context, plotFile, usedPaths, run>>

\* a run of Analysis and Synthesis
PlainResults ==
    [raises |-> FALSE, success |-> TRUE,
     agent_results |-> <<AgentResultOf("CodeInterpreter", TRUE, 1),
                         AgentResultOf("AnswerSynthesiser", TRUE, 1)>>]

NextSession ==
    \/ \E session_id \in SessionIds : chat(session_id, PlainResults)
    \/ \E session_id \in SessionIds, filename \in Filenames :
          upload_file(session_id, filename, FALSE, PlainResults)
    \/ \E session_id \in SessionIds : delete_session(session_id)

SpecSession == Init /\ [][NextSession]_vars

(***************************************************************************)
(* SpecChat: the requests of one session, with every run result.           *)
(***************************************************************************)
NextChat ==
    \/ \E results \in ChatResults : chat("A", results)
    \/ \E results \in ChatResults : upload_file("A", "a.csv", TRUE, results)
    \/ delete_session("A")

SpecChat == Init /\ [][NextChat]_vars

(***************************************************************************)
(* SpecReport: runs of one session store their payloads, and the Reporting *)
(* worker is called with the session's context or with a context that has  *)
(* the keys it looks up.                                                   *)
(***************************************************************************)
\* conversation_context=session["context"]
SessionContext(session) ==
    [null |-> FALSE, keys |-> DOMAIN session.context, tupleKeys |-> FALSE]

ReportContext ==
    [null |-> FALSE, keys |-> {PresAnalysisKey, PresPlottingKey}, tupleKeys |-> FALSE]

ReportFromSession ==
    \E llm \in OtherCompletions :
        /\ "A" \in DOMAIN sessions
        /\ ProcessPres("A", PlainQuery, SessionContext(sessions["A"]), llm)
        /\ UNCHANGED <<run, sessions, disk>>

ReportDirect ==
    \E llm \in OtherCompletions :
        /\ ProcessPres("A", PlainQuery, ReportContext, llm)
        /\ UNCHANGED <<run, sessions, disk>>

NextReport ==
    \/ \E results \in ChatResults : chat("A", results)
    \/ ReportFromSession
    \/ ReportDirect

SpecReport == Init /\ [][NextReport]_vars

(***************************************************************************)
(* Claims about the Analysis sandbox.                                      *)
(***************************************************************************)
AnalysisCalled == last.agent = "CodeInterpreter"

ScriptResults == IF AnalysisCalled THEN last.env.results ELSE <<>>

\* the registry by value when script i of the last call returned
RegistryAfter(i) ==
    IF i < Len(ScriptResults) THEN ScriptResults[i + 1].before
    ELSE TablesByValue(dataframes, heap)

\* C1: a script that raises leaves the Table Registry exactly as it was
\* before the execution, names and table contents, the tables handed to the
\* script as inputs included.
C1_FailingScriptLeavesRegistry ==
    \A i \in 1..Len(ScriptResults) :
        ~ScriptResults[i].success => RegistryAfter(i) = ScriptResults[i].before

\* C2: the harvested variables of a successful script hold no name of the
\* initial binding set (registry tables, library handles) and no
\* underscore-prefixed name.
C2_HarvestOnlyNewBindings ==
    \A i \in 1..Len(ScriptResults) :
        ScriptResults[i].success =>
            \A k \in DOMAIN ScriptResults[i].variables :
                k \notin ScriptResults[i].initial /\ k \notin Underscored

\* the tables a call of session s may see: those its own session created
OwnTables(tables, s) == \A n \in DOMAIN tables : tables[n].by = s

\* C5: the Table Registry is scoped to one run or session: no table loaded
\* or bound by a run of one session is in the prompt, the binding set of a
\* script or the payload of a run of another session.
C5_RegistryScopedPerSession ==
    AnalysisCalled =>
        /\ OwnTables(last.prompt.tables, last.session)
        /\ \A i \in 1..Len(ScriptResults) :
              OwnTables(ScriptResults[i].before, last.session)
        /\ OwnTables(last.env.tables, last.session)

\* C6: a call with several input files of which one fails to parse returns
\* success=false and has loaded no file: the registry and the context are
\* as they were before the call.
C6_NoPartialLoad ==
    (/\ AnalysisCalled
     /\ Len(last.files) >= 2
     /\ \E i \in 1..Len(last.files) : ~last.files[i].ok)
    => /\ ~last.env.success
       /\ TablesByValue(dataframes, heap) = last.preTables
       /\ context = last.preContext

\* C11: when a script of a batch raises, every later script of the batch is
\* still executed, the failing script has a result with success = false,
\* and the envelope has success = true and declares a next worker.
C11_BatchSurvivesFailingScript ==
    (/\ AnalysisCalled
     /\ last.extracted.done
     /\ last.env.raised \/ \E i \in 1..Len(ScriptResults) : ~ScriptResults[i].success)
    => /\ ~last.env.raised
       /\ Len(ScriptResults) = last.extracted.n
       /\ last.env.success
       /\ last.env.next \in {"VisualizationAgent", "AnswerSynthesiser"}

\* C12: a script that raises has success = false, an error text, no
\* harvested variables and stores no name in the Table Registry, and its
\* output field holds what it wrote to standard output before it raised.
C12_FailureKeepsStdout ==
    \A i \in 1..Len(ScriptResults) :
        ~ScriptResults[i].success =>
            /\ ScriptResults[i].error # NoError
            /\ ScriptResults[i].variables = Empty
            /\ DOMAIN RegistryAfter(i) = DOMAIN ScriptResults[i].before
            /\ ScriptResults[i].output = ScriptResults[i].stdout

\* the registry keeps what it held when the call began: every name is in the
\* initial binding set of every script of the call, and in the registry
KeepsEarlierTables ==
    /\ \A j \in 1..Len(ScriptResults) : DOMAIN last.preTables \subseteq ScriptResults[j].initial
    /\ DOMAIN last.preTables \subseteq DOMAIN dataframes

StoredAndVisible(i, n) ==
    /\ n \in DOMAIN RegistryAfter(i)
    /\ RegistryAfter(i)[n] = ScriptResults[i].bound[n]
    /\ \A j \in (i + 1)..Len(ScriptResults) : n \in ScriptResults[j].initial

\* C13: a table bound under name n by a script that completes successfully
\* is stored in the Table Registry under n and is in the initial binding
\* set, under n, of every script executed afterwards, in the same batch and
\* in later invocations.
C13_TableVisibleToLaterScripts ==
    AnalysisCalled =>
        /\ KeepsEarlierTables
        /\ \A i \in 1..Len(ScriptResults) :
              \A n \in DOMAIN ScriptResults[i].bound : StoredAndVisible(i, n)

\* C13, for the names the harvest keeps: n does not start with an underscore
\* and is not the name of a library handle (pd, np).
C13_HarvestableTableVisibleToLaterScripts ==
    AnalysisCalled =>
        /\ KeepsEarlierTables
        /\ \A i \in 1..Len(ScriptResults) :
              \A n \in DOMAIN ScriptResults[i].bound \ (Underscored \cup {"pd", "np"}) :
                  StoredAndVisible(i, n)

\* the first script of a batch binds table x, the second starts with x bound
C13_SecondScriptSeesTable ==
    /\ AnalysisCalled
    /\ Len(ScriptResults) = 2
    /\ "x" \in DOMAIN ScriptResults[1].bound \ DOMAIN ScriptResults[1].before
    /\ "x" \in ScriptResults[2].initial
    /\ ScriptResults[2].before["x"] = ScriptResults[1].bound["x"]

\* C20: the same script executed twice against the same binding set gives
\* the same harvested descriptors, success flag and output text: a result
\* does not depend on what earlier invocations left behind.
C20_SandboxIdempotent ==
    (/\ AnalysisCalled
     /\ Len(ScriptResults) = 2
     /\ ScriptResults[1].initial = ScriptResults[2].initial
     /\ ScriptResults[1].before = ScriptResults[2].before)
    => /\ ScriptResults[1].variables = ScriptResults[2].variables
       /\ ScriptResults[1].success = ScriptResults[2].success
       /\ ScriptResults[1].output = ScriptResults[2].output

(***************************************************************************)
(* Claims about the Script Extractor, checked under SpecExtract.           *)
(***************************************************************************)
Text == IF ExtractorCalled THEN last.text ELSE <<>>

Scripts == IF ExtractorCalled THEN last.code_blocks ELSE <<>>

NoCloseBetween(i, j) == \A k \in (i + 1)..(j - 1) : Text[k] # CloseLine

\* the close-marker lines that end a span: an open-marker line comes before,
\* with no other close-marker line between the two
SpanEnds ==
    {j \in 1..Len(Text) :
        Text[j] = CloseLine /\ \E i \in 1..(j - 1) : Text[i] = OpenLine /\ NoCloseBetween(i, j)}

\* the span that ends at j begins at the first open-marker line after the
\* close-marker line before it
SpanBegin(j) ==
    CHOOSE i \in 1..(j - 1) :
        /\ Text[i] = OpenLine /\ NoCloseBetween(i, j)
        /\ \A h \in 1..(i - 1) : ~(Text[h] = OpenLine /\ NoCloseBetween(h, j))

\* the last open-marker line before j
LastOpenBefore(j) ==
    CHOOSE i \in 1..(j - 1) :
        Text[i] = OpenLine /\ \A k \in (i + 1)..(j - 1) : Text[k] \notin {OpenLine, CloseLine}

RECURSIVE Ascending(_)
Ascending(S) ==
    IF S = {} THEN <<>>
    ELSE LET m == CHOOSE x \in S : \A y \in S : x <= y
         IN <<m>> \o Ascending(S \ {m})

HasLine(body) == body # <<>>

\* C14: a text with N well-formed fenced spans gives exactly N script
\* bodies, the bodies of the spans in source order, whatever prose is
\* interleaved and whatever the spans contain, an empty body included.
C14_OneScriptPerSpan ==
    LET ends == Ascending(SpanEnds)
    IN Scripts = [k \in 1..Len(ends) |-> SubSeq(Text, SpanBegin(ends[k]) + 1, ends[k] - 1)]

\* C14, as the code has it: a span runs from the last open-marker line
\* before its close-marker line, and a span with no line in its body gives
\* no script.
C14_OneScriptPerSpanWithBody ==
    LET ends == Ascending(SpanEnds)
    IN Scripts = SelectSeq([k \in 1..Len(ends) |->
                              SubSeq(Text, LastOpenBefore(ends[k]) + 1, ends[k] - 1)],
                           HasLine)

\* two spans with different bodies
C14_TwoSpansInOrder ==
    /\ Text = <<OpenLine, PrintLine, CloseLine, OpenLine, RaiseLine, CloseLine>>
    /\ Scripts = << <<PrintLine>>, <<RaiseLine>> >>

\* the open-marker lines with no close-marker line after them
OpenToTheEnd ==
    {i \in 1..Len(Text) :
        Text[i] = OpenLine /\ \A k \in (i + 1)..Len(Text) : Text[k] # CloseLine}

\* C15: a fence opened and never closed gives nothing: the scripts returned
\* are those of the text before the fence, unchanged.
C15_UnterminatedFenceDropped ==
    OpenToTheEnd # {} =>
        LET fence == CHOOSE i \in OpenToTheEnd : \A h \in OpenToTheEnd : i <= h
        IN /\ Scripts = ExtractCodeBlocks(SubSeq(Text, 1, fence - 1))
           /\ Len(Scripts) <= Cardinality({j \in SpanEnds : j < fence})

\* a complete span, then a fence with a statement and no close marker
C15_SpanThenOpenFence ==
    /\ Text = <<ProseLine, OpenLine, PrintLine, CloseLine, OpenLine, RaiseLine>>
    /\ Scripts = << <<PrintLine>> >>

(***************************************************************************)
(* Claims about the session store, checked under SpecSession.              *)
(***************************************************************************)
\* C17: once a session is deleted, no file saved on its behalf is on disk.
C17_DeletedSessionLeavesNoFile ==
    \A f \in disk : f.owner \in DOMAIN sessions

PipelineRan == last.agent \in {"chat", "upload_file"} /\ last.ran

Merged(agent_result) ==
    /\ ContextKey(agent_result.agent) \in DOMAIN sessions[last.session].context
    /\ sessions[last.session].context[ContextKey(agent_result.agent)] = agent_result.data

\* C18: after a pipeline run the payload of every worker whose envelope has
\* success = true is in the session context under the worker's identity, in
\* place of any earlier value, also when another worker of the run failed.
C18_SuccessfulPayloadsMerged ==
    PipelineRan =>
        \A i \in 1..Len(last.results.agent_results) :
            last.results.agent_results[i].success => Merged(last.results.agent_results[i])

(***************************************************************************)
(* Claims about the workers' envelopes, checked under SpecWorkers.         *)
(***************************************************************************)
WorkerCalled == last.agent \in Workers

PlottingCalled == last.agent = "VisualizationAgent"

\* C7: process() of every worker returns an envelope and never raises; a call
\* whose model call failed returns an envelope with success = false.
C7_ProcessNeverRaises ==
    WorkerCalled =>
        /\ ~last.env.raised
        /\ last.modelFails => ~last.env.success

\* C16: every envelope with success = false carries an error description as
\* its payload, never an absent payload or a partial result.
C16_FailurePayloadIsError ==
    (WorkerCalled /\ ~last.env.raised /\ ~last.env.success) => last.env.data = "error"

\* C21: the Reporting worker and the Synthesis worker are terminal: every
\* envelope either of them returns, on success and on failure, declares no
\* next worker.
C21_ReportingAndSynthesisTerminal ==
    (/\ last.agent \in {"PresentationAgent", "AnswerSynthesiser"}
     /\ ~last.env.raised)
    => last.env.next = NoAgent

\* the Reporting worker has returned a failure envelope
C21_ReportingFailureReturned ==
    /\ last.agent = "PresentationAgent"
    /\ ~last.env.raised
    /\ ~last.env.success
    /\ last.modelFails
    /\ last.env.next = NoAgent

\* C22: when the session context holds an Analysis payload and a Plotting
\* payload under the keys the session store writes, a Reporting invocation
\* with that context reads both: its prompt includes the analysis results,
\* its document embeds the artifacts, and has_code_analysis is true.
C22_ReportingReadsStoredPayloads ==
    (/\ last.agent = "PresentationAgent"
     /\ ~last.env.raised
     /\ last.env.success
     /\ {ContextKey("CodeInterpreter"), ContextKey("VisualizationAgent")}
            \subseteq last.preContext.keys)
    => /\ last.prompt.analysis
       /\ last.presentation.visualizations # "empty"
       /\ last.presentation.metadata.has_code_analysis

\* C24: every non-empty next-worker name that a worker places in an envelope
\* is the registered name of one of the four workers, and no run enters
\* Failed for an unknown next worker.
C24_NextWorkerIsRegistered ==
    /\ (WorkerCalled /\ ~last.env.raised /\ last.env.next # NoAgent)
           => last.env.next \in Workers
    /\ run.state # "Failed"

\* a run whose Analysis worker has named Plotting, which is selected next
C24_AnalysisNamedPlotting ==
    /\ last.agent = "CodeInterpreter"
    /\ ~last.env.raised
    /\ last.env.next = "VisualizationAgent"
    /\ run.state = "Routing"
    /\ run.current = "VisualizationAgent"

\* C8: every envelope the Plotting worker returns names Synthesis as the next
\* worker: no script extracted, every artifact failed, some artifact
\* produced, or the invocation itself failed.
C8_PlottingAlwaysDeclaresSynthesis ==
    (PlottingCalled /\ ~last.env.raised) => last.env.next = "AnswerSynthesiser"

\* the plotting keywords, as the claim lists them
PlottingKeywords ==
    {<<"p", "l", "o", "t">>, <<"g", "r", "a", "p", "h">>, <<"c", "h", "a", "r", "t">>,
     <<"v", "i", "s", "u", "a", "l", "i", "z", "e">>, <<"s", "h", "o", "w">>,
     <<"d", "i", "s", "p", "l", "a", "y">>, <<"t", "r", "e", "n", "d">>,
     <<"d", "i", "s", "t", "r", "i", "b", "u", "t", "i", "o", "n">>,
     <<"c", "o", "r", "r", "e", "l", "a", "t", "i", "o", "n">>,
     <<"c", "o", "m", "p", "a", "r", "e">>}

SameLetter(c, d) ==
    \/ c = d
    \/ \E i \in 1..26 : {c, d} = {UpperCase[i], LowerCase[i]}

\* word occurs in query at offset i, letter case ignored
OccursAt(word, query, i) ==
    /\ i + Len(word) <= Len(query)
    /\ \A j \in 1..Len(word) : SameLetter(query[i + j], word[j])

MentionsPlotting(query) ==
    \E word \in PlottingKeywords : \E i \in 0..Len(query) : OccursAt(word, query, i)

\* C9: after a successful model call the Analysis worker declares no next
\* worker (success = true) when no script was extracted; when at least one
\* script was executed it declares Plotting if the lowercased query contains
\* a plotting keyword and Synthesis otherwise, whatever the scripts' outcome.
C9_AnalysisNextWorkerPolicy ==
    (AnalysisCalled /\ last.extracted.done /\ ~last.env.raised) =>
        IF last.extracted.n = 0
        THEN last.env.success /\ last.env.next = NoAgent
        ELSE last.env.next = IF MentionsPlotting(last.query)
                             THEN "VisualizationAgent"
                             ELSE "AnswerSynthesiser"

\* a keyword in upper case, every executed script failed, Plotting declared
C9_FailedScriptsRouteToPlotting ==
    /\ AnalysisCalled
    /\ last.extracted.n >= 1
    /\ \A i \in 1..Len(ScriptResults) : ~ScriptResults[i].success
    /\ last.query # Lower(last.query)
    /\ last.env.next = "VisualizationAgent"

(***************************************************************************)
(* Claims about a pipeline run, checked under SpecRoute.                   *)
(***************************************************************************)
Invoked == [i \in 1..Len(run.record) |-> run.record[i].agent]

\* C10: from any entry worker, following the envelopes' next-worker fields
\* ends at an envelope with no next worker before the step ceiling is
\* reached, and no worker is invoked twice in one run.
C10_RunEndsWithoutRevisit ==
    run.state # "Idle" =>
        /\ run.steps < StepCeiling
        /\ run.state # "Failed"
        /\ \A i, j \in 1..Len(Invoked) : i # j => Invoked[i] # Invoked[j]
        /\ run.state = "Terminated" <=>
               (run.record # <<>> /\ run.record[Len(run.record)].next = NoAgent)
        /\ run.state = "Routing" =>
               (run.current \in Workers /\ \A i \in 1..Len(Invoked) : Invoked[i] # run.current)

\* the longest run: Analysis, Plotting, Synthesis
C10_ThreeWorkerRun ==
    /\ run.state = "Terminated"
    /\ Invoked = <<"CodeInterpreter", "VisualizationAgent", "AnswerSynthesiser">>

(***************************************************************************)
(* Claims about the Plotting sandbox.                                      *)
(***************************************************************************)

Artifacts == IF PlottingCalled /\ ~last.env.raised THEN last.artifacts ELSE <<>>

\* C23: in both sandbox variants nothing a script writes to standard output
\* or standard error reaches the process's own terminal streams.
C23_NothingReachesTerminal ==
    /\ \A i \in 1..Len(ScriptResults) : ScriptResults[i].terminal = <<>>
    /\ \A i \in 1..Len(Artifacts) : Artifacts[i].terminal = <<>>

Produced(artifact) == artifact.success

\* C25: in every successful Plotting envelope the visualizations list holds
\* exactly the artifacts with success=true, each with an image payload, in
\* script order, and visualization_count is the length of that list.
C25_OnlyProducedArtifactsListed ==
    (PlottingCalled /\ ~last.env.raised /\ last.env.success)
    => /\ last.env.visualizations = SelectSeq(last.artifacts, Produced)
       /\ \A i \in 1..Len(last.env.visualizations) :
             /\ last.env.visualizations[i].success
             /\ last.env.visualizations[i].image_base64 # <<>>
       /\ last.env.visualization_count = <<Len(last.env.visualizations)>>

\* C25: as above for every successful Plotting envelope of a call that
\* extracted at least one script; the successful envelope of a call that
\* extracted none has an empty visualizations list and no
\* visualization_count.
C25_OnlyProducedArtifactsListedWhenScriptsRan ==
    (PlottingCalled /\ ~last.env.raised /\ last.env.success)
    => IF last.artifacts = <<>>
       THEN /\ last.env.visualizations = <<>>
            /\ last.env.visualization_count = <<>>
       ELSE /\ last.env.visualizations = SelectSeq(last.artifacts, Produced)
            /\ \A i \in 1..Len(last.env.visualizations) :
                  /\ last.env.visualizations[i].success
                  /\ last.env.visualizations[i].image_base64 # <<>>
            /\ last.env.visualization_count = <<Len(last.env.visualizations)>>

\* a call whose first script failed and whose second wrote the image
C25_FailedThenProduced ==
    /\ PlottingCalled
    /\ ~last.env.raised
    /\ last.env.success
    /\ Len(last.artifacts) = 2
    /\ ~last.artifacts[1].success
    /\ last.artifacts[2].success
    /\ last.env.visualizations = <<last.artifacts[2]>>
    /\ last.env.visualization_count = <<1>>

\* C3: after every return of _create_visualization the well-known image
\* path does not exist, so an artifact with success=true carries the image
\* its own script wrote, never one left by an earlier invocation.
C3_ImagePathAbsentAfterReturn ==
    /\ ~plotFile.exists
    /\ \A i \in 1..Len(Artifacts) : Artifacts[i].success => Artifacts[i].wrote

\* C4: every plotting invocation uses an image path of its own, so no
\* invocation reads, overwrites or deletes the image file of an invocation
\* of another run.
C4_NoCrossRunImageInterference ==
    PlottingCalled =>
        /\ \A i \in 1..Len(Artifacts) : Artifacts[i].took \in {"none", last.session}
        /\ (last.preFile.exists /\ last.preFile.by # last.session) => plotFile = last.preFile

\* base64 decoding: four characters give three bytes, "=" pads the last group
B64Value(c) == CHOOSE n \in 0..63 : B64Alphabet[n + 1] = c

RECURSIVE B64Decode(_)
B64Decode(chars) ==
    IF Len(chars) < 4 THEN <<>>
    ELSE LET a == B64Value(chars[1])
             b == B64Value(chars[2])
         IN IF chars[3] = "="
            THEN <<a * 4 + b \div 16>>
            ELSE IF chars[4] = "="
            THEN <<a * 4 + b \div 16, (b % 16) * 16 + B64Value(chars[3]) \div 4>>
            ELSE <<a * 4 + b \div 16, (b % 16) * 16 + B64Value(chars[3]) \div 4,
                   (B64Value(chars[3]) % 4) * 64 + B64Value(chars[4])>>
                 \o B64Decode(SubSeq(chars, 5, Len(chars)))

\* C19: a plotting script that writes an image to the designated path and
\* returns normally gives an artifact with success = true whose image
\* decodes to the bytes written, and the path does not exist afterwards.
C19_ArtifactRoundTrip ==
    \A i \in 1..Len(Artifacts) :
        (Artifacts[i].wrote /\ Artifacts[i].error = NoError) =>
            /\ Artifacts[i].success
            /\ B64Decode(Artifacts[i].image_base64) = Artifacts[i].written
            /\ ~Artifacts[i].left

\* a two-byte image written over the file an earlier script left behind
C19_ImageWrittenOverStaleFile ==
    /\ PlottingCalled
    /\ last.preFile.exists
    /\ Len(Artifacts) = 1
    /\ Artifacts[1].wrote /\ Artifacts[1].success
    /\ Artifacts[1].written = <<255, 216>>
    /\ last.preFile.bytes = <<137, 80, 78, 71>>
    /\ ~plotFile.exists

====
